---- MODULE Spec2Model ----
(***************************************************************************)
(* Dead man's switch: trigger lifecycle (create / get / delete / checkin), *)
(* the request router and the cron sweep, modelled over an abstract        *)
(* datastore (get, put, delete by key; range query on DueToFire).          *)
(***************************************************************************)
EXTENDS Integers, Sequences, FiniteSets, TLC

\* ---------------------------------------------------------------- bounds
MaxAdvances == 1       \* number of times the wall clock advances
MaxCheckins == 2       \* cap on the length of a trigger's Checkins
MaxSweeps == 2         \* number of ServeCron invocations
TicksPerSecond == 2    \* clock resolution: ticks in one second

\* ------------------------------------------------------------ time units
Second == TicksPerSecond
Hour == 3600 * Second

\* time.Time.Truncate(time.Second)
Truncate(t) == t - (t % Second)

DueAfterNoScale(now, hours) == now + hours

\* now.Add(time.Duration(HoursBetweenFire * int(time.Hour)))
DueAfter(now, hours) == now + hours * Hour

\* --------------------------------------------------------------- entities
\* the ids uuid.NewV4 can return; two suffice for one sweep to meet two due
\* triggers and for one trigger to stay while another goes
UUIDs == {1, 2}

\* uuid.UUID.String(): the canonical text of an id
UUIDText(i) == ToString(i)

\* a second text form uuid.FromString accepts (braced)
UUIDBraced(i) == "{" \o ToString(i) \o "}"

\* the zero value of DeadMansTrigger; also stands for "no entity under the key"
NoRec ==
    [Id |-> 0, DueToFire |-> 0, HoursBetweenFire |-> 0, Checkins |-> <<>>,
     FireURL |-> "", FirePayload |-> ""]

Last(s) == s[Len(s)]

\* --------------------------------------------------- create request body
Absent == "absent"
NotInt == "notint"
HoursIn == {-1, 1}
URLsIn == {"u"}
PayloadsIn == {"p"}

Malformed == [hoursBetweenFire |-> "malformed", fireURL |-> "malformed", firePayload |-> "malformed"]

\* a body that does not parse, every hoursBetweenFire with the other fields
\* present, and a body without fireURL
Bodies ==
    {Malformed} \cup
    [hoursBetweenFire : {ToString(h) : h \in HoursIn} \cup {Absent, NotInt},
     fireURL : URLsIn,
     firePayload : PayloadsIn] \cup
    [hoursBetweenFire : {"1"},
     fireURL : {Absent},
     firePayload : PayloadsIn]

\* bodies createTrigger stores as they are
PlainBodies == [hoursBetweenFire : {"1", "-1"}, fireURL : URLsIn, firePayload : PayloadsIn]

\* bodies whose trigger is due as soon as it is stored
OverdueBodies == [hoursBetweenFire : {"-1"}, fireURL : URLsIn, firePayload : PayloadsIn]

\* one body createTrigger stores and one it cannot decode
RouterBodies == {Malformed} \cup [hoursBetweenFire : {"1"}, fireURL : URLsIn, firePayload : PayloadsIn]

\* strconv of a JSON number literal
ParseInt(s) == CHOOSE h \in HoursIn : ToString(h) = s

DecodeSwapped(body) ==
    IF body = Malformed \/ body.hoursBetweenFire = NotInt
    THEN [err |-> "decode", HoursBetweenFire |-> 0, FireURL |-> "", FirePayload |-> ""]
    ELSE [err |-> "nil",
          HoursBetweenFire |-> IF body.hoursBetweenFire = Absent THEN 0 ELSE ParseInt(body.hoursBetweenFire),
          FireURL |-> IF body.firePayload = Absent THEN "" ELSE body.firePayload,
          FirePayload |-> IF body.fireURL = Absent THEN "" ELSE body.fireURL]

\* json.NewDecoder(body).Decode(&input): absent fields keep their zero value
Decode(body) ==
    IF body = Malformed \/ body.hoursBetweenFire = NotInt
    THEN [err |-> "decode", HoursBetweenFire |-> 0, FireURL |-> "", FirePayload |-> ""]
    ELSE [err |-> "nil",
          HoursBetweenFire |-> IF body.hoursBetweenFire = Absent THEN 0 ELSE ParseInt(body.hoursBetweenFire),
          FireURL |-> IF body.fireURL = Absent THEN "" ELSE body.fireURL,
          FirePayload |-> IF body.firePayload = Absent THEN "" ELSE body.firePayload]

\* the DeadMansTrigger literal of createTrigger
NewEntity(id, now, input) ==
    [Id |-> id,
     DueToFire |-> DueAfter(now, input.HoursBetweenFire),
     HoursBetweenFire |-> input.HoursBetweenFire,
     Checkins |-> <<now>>,
     FireURL |-> input.FireURL,
     FirePayload |-> input.FirePayload]

CheckedInDropHistory(e, now) ==
    [e EXCEPT !.Checkins = <<now>>,
              !.DueToFire = DueAfter(now, e.HoursBetweenFire)]

\* the two assignments of checkinTrigger
CheckedIn(e, now) ==
    [e EXCEPT !.Checkins = Append(e.Checkins, now),
              !.DueToFire = DueAfter(now, e.HoursBetweenFire)]

\* ------------------------------------------------------------------ router
Methods == {"GET", "POST", "DELETE", "PUT"}

\* strings.Split(path, "/") over a path given as a sequence of tokens:
\* "/" separates, adjacent other tokens concatenate into one segment
RECURSIVE SplitFrom(_, _, _)
SplitFrom(path, i, cur) ==
    IF i > Len(path) THEN <<cur>>
    ELSE IF path[i] = "/" THEN <<cur>> \o SplitFrom(path, i + 1, "")
    ELSE SplitFrom(path, i + 1, cur \o path[i])

Split(path) == SplitFrom(path, 1, "")

\* uuid.FromString: 0 when the text does not parse
FromString(seg) ==
    IF \E i \in UUIDs : seg = UUIDText(i) \/ seg = UUIDBraced(i)
    THEN CHOOSE i \in UUIDs : seg = UUIDText(i) \/ seg = UUIDBraced(i)
    ELSE 0

NotFoundMsg == "The requested URL could not be found"
PostOnlyMsg == "The requested method is not available. Available methods: POST"
GetDeleteMsg == "The requested method is not available. Available methods: GET, DELETE"

RouteTo(op, id) == [op |-> op, id |-> id, code |-> 0, msg |-> ""]
RouteErr(code, msg) == [op |-> "error", id |-> 0, code |-> code, msg |-> msg]

RouteAnyThirdSegment(method, path) ==
    LET segments == Split(path)
        length == Len(segments)
    IN  IF length >= 2 /\ segments[2] = "triggers"
        THEN CASE length = 2 ->
                    IF method = "POST" THEN RouteTo("create", 0)
                    ELSE RouteErr(405, PostOnlyMsg)
               [] length = 3 ->
                    IF FromString(segments[3]) # 0
                    THEN CASE method = "GET" -> RouteTo("get", FromString(segments[3]))
                           [] method = "DELETE" -> RouteTo("delete", FromString(segments[3]))
                           [] OTHER -> RouteErr(405, GetDeleteMsg)
                    ELSE RouteErr(404, NotFoundMsg)
               [] length = 4 ->
                    IF FromString(segments[3]) # 0
                    THEN IF method = "POST" THEN RouteTo("checkin", FromString(segments[3]))
                         ELSE RouteErr(405, PostOnlyMsg)
                    ELSE RouteErr(404, NotFoundMsg)
               [] OTHER -> RouteErr(404, NotFoundMsg)
        ELSE RouteErr(404, NotFoundMsg)

\* the switch of HandleHTTP
Route(method, path) ==
    LET segments == Split(path)
        length == Len(segments)
    IN  IF length >= 2 /\ segments[2] = "triggers"
        THEN CASE length = 2 ->
                    IF method = "POST" THEN RouteTo("create", 0)
                    ELSE RouteErr(405, PostOnlyMsg)
               [] length = 3 ->
                    IF FromString(segments[3]) # 0
                    THEN CASE method = "GET" -> RouteTo("get", FromString(segments[3]))
                           [] method = "DELETE" -> RouteTo("delete", FromString(segments[3]))
                           [] OTHER -> RouteErr(405, GetDeleteMsg)
                    ELSE RouteErr(404, NotFoundMsg)
               [] length = 4 ->
                    IF FromString(segments[3]) # 0 /\ segments[4] = "checkin"
                    THEN IF method = "POST" THEN RouteTo("checkin", FromString(segments[3]))
                         ELSE RouteErr(405, PostOnlyMsg)
                    ELSE RouteErr(404, NotFoundMsg)
               [] OTHER -> RouteErr(404, NotFoundMsg)
        ELSE RouteErr(404, NotFoundMsg)

\* the paths of the trigger resources, and one with an id that does not parse
Paths ==
    {<<"/", "triggers">>} \cup
    {<<"/", "triggers", "/", t>> : t \in {UUIDText(i) : i \in UUIDs} \cup {"bad"}} \cup
    {<<"/", "triggers", "/", t, "/", "checkin">> : t \in {UUIDText(i) : i \in UUIDs} \cup {"bad"}}

\* the requests clients send: the four operations, each also under a wrong
\* method, and every method on the paths whose id does not parse
Requests ==
    {q \in [method : Methods, path : Paths] :
        \/ q.method \in {"GET", "DELETE", "POST"}
        \/ q.path = <<"/", "triggers">>}

\* the requests that reach a lifecycle operation
GoodRequests == {q \in Requests : Route(q.method, q.path).op # "error"}

\* a path written from its segments: "/" between them, nothing for an empty one
RECURSIVE PathOf(_)
PathOf(segs) ==
    IF Len(segs) = 0 THEN <<>>
    ELSE LET first == IF segs[1] = "" THEN <<>> ELSE <<segs[1]>>
         IN  IF Len(segs) = 1 THEN first
             ELSE first \o <<"/">> \o PathOf(Tail(segs))

\* what can stand at each place of a request path: rq.URL.Path begins with
\* "/", so the first segment is empty; then the prefix or something else, an
\* id in either text form or something that is no id, checkin or something
\* else, and a further segment
SegmentsAt ==
    <<{""},
      {"triggers", "x", ""},
      {UUIDText(1), UUIDText(2), UUIDBraced(1), "bad", ""},
      {"checkin", "x", ""},
      {"x", ""}>>

Places == Len(SegmentsAt)

SegLists ==
    UNION {{l \in [1..n -> UNION {SegmentsAt[p] : p \in 1..Places}] :
                \A p \in 1..n : l[p] \in SegmentsAt[p]} : n \in 1..Places}

AllPaths == {PathOf(l) : l \in SegLists}

\* every method on every such path
AllRequests == [method : Methods, path : AllPaths]

\* Route, tabled
Routed == [q \in AllRequests |-> Route(q.method, q.path)]

RouteOf(method, path) == Routed[[method |-> method, path |-> path]]

\* baseURL, built in init()
BaseURL == <<"https://region-project.cloudfunctions.net/name">>

\* fmt.Sprint(baseURL, "/triggers/", fullEntity.Id)
LocationOf(id) == BaseURL \o <<"/", "triggers", "/", UUIDText(id)>>

\* ---------------------------------------------------------------- responses
\* json.NewEncoder(writer).Encode(&entity): the fields under their json tags
JSONOf(e) ==
    [id |-> UUIDText(e.Id), due |-> e.DueToFire, hoursBetweenFire |-> e.HoursBetweenFire,
     checkins |-> e.Checkins, fireURL |-> e.FireURL, firePayload |-> e.FirePayload]

NoJSON == JSONOf(NoRec)

NoResp == [status |-> 0, ctype |-> "", text |-> "", entity |-> NoJSON, location |-> <<>>]

\* the error branch of HandleHTTP
ErrorResp(code, msg) ==
    [status |-> code, ctype |-> "text/plain;charset=UTF-8", text |-> msg,
     entity |-> NoJSON, location |-> <<>>]

\* sendEntity: JSON body, implicit 200
EntityResp(e) ==
    [status |-> 200, ctype |-> "application/json", text |-> "",
     entity |-> JSONOf(e), location |-> <<>>]

\* deleteTrigger's success: WriteHeader(StatusNoContent)
NoContentResp == [NoResp EXCEPT !.status = 204]

\* createTrigger's success: Location header and StatusTemporaryRedirect
RedirectResp(id) == [NoResp EXCEPT !.status = 307, !.location = LocationOf(id)]

NoReq == [method |-> "", path |-> <<>>, body |-> Malformed]

\* ------------------------------------------------------------------- state
Reqs == {1, 2}        \* interactive requests that can be in flight together
Sweeps == {1, 2}      \* ServeCron invocations that can overlap

VARIABLES
    store,      \* datastore: key (the id) -> entity, NoRec when absent
    clock,      \* time.Now(), in ticks
    advances,   \* how often the clock has advanced
    issued,     \* ids uuid.NewV4 has returned so far
    rpc,        \* per request: "idle", "checkin" (between Get and Put), "done"
    req,        \* per request: method, path, body
    entity,     \* per request: checkinTrigger's local entity
    resp,       \* per request: what was written to the ResponseWriter
    spc,        \* per sweep: position in ServeCron
    results,    \* per sweep: what the query iterator yields
    pos,        \* per sweep: how many results it.Next has yielded
    target,     \* per sweep: the entity it.Next loaded last
    k,          \* per sweep: ServeCron's key variable (0 is nil)
    err,        \* per sweep: ServeCron's err variable
    pending,    \* per sweep: launched fireHttpCallback goroutines not yet run
    fired,      \* per id: POSTs issued so far for that trigger
    sweeps,     \* ServeCron invocations started so far
    qstore,     \* per sweep: the store as the query saw it
    qclock,     \* per sweep: the time of the query
    qfired,     \* per sweep: fired at the time of the query
    rfault,     \* per request: whether a store operation of it has failed
    sfaults,    \* per sweep: the kinds of store operation that have failed in it
    delivered   \* per id: POSTs of that trigger's callback that succeeded

reqVars == <<rpc, req, entity, resp, rfault>>
sweepVars == <<spc, results, pos, target, k, err, pending, sweeps, qstore, qclock, qfired, sfaults>>
vars == <<store, clock, advances, issued, rpc, req, entity, resp, spc, results, pos,
          target, k, err, pending, fired, sweeps, qstore, qclock, qfired,
          rfault, sfaults, delivered>>

EmptyStore == [i \in UUIDs |-> NoRec]

Init ==
    /\ store = EmptyStore
    /\ clock = 0
    /\ advances = 0
    /\ issued = {}
    /\ rpc = [r \in Reqs |-> "idle"]
    /\ req = [r \in Reqs |-> NoReq]
    /\ entity = [r \in Reqs |-> NoRec]
    /\ resp = [r \in Reqs |-> NoResp]
    /\ spc = [s \in Sweeps |-> "idle"]
    /\ results = [s \in Sweeps |-> <<>>]
    /\ pos = [s \in Sweeps |-> 0]
    /\ target = [s \in Sweeps |-> NoRec]
    /\ k = [s \in Sweeps |-> 0]
    /\ err = [s \in Sweeps |-> "nil"]
    /\ pending = [s \in Sweeps |-> {}]
    /\ fired = [i \in UUIDs |-> 0]
    /\ sweeps = 0
    /\ qstore = [s \in Sweeps |-> EmptyStore]
    /\ qclock = [s \in Sweeps |-> 0]
    /\ qfired = [s \in Sweeps |-> [i \in UUIDs |-> 0]]
    /\ rfault = [r \in Reqs |-> FALSE]
    /\ sfaults = [s \in Sweeps |-> {}]
    /\ delivered = [i \in UUIDs |-> 0]

\* the wall clock moves on by a tick or by an hour
Tick(d) ==
    /\ advances < MaxAdvances
    /\ clock' = clock + d
    /\ advances' = advances + 1
    /\ UNCHANGED <<store, issued, reqVars, sweepVars, fired, delivered>>

\* -------------------------------------------------------- interactive requests
\* HandleHTTP on a request the router itself answers (404 or 405)
HandleRejected(r, method, path) ==
    /\ rpc[r] = "idle"
    /\ RouteOf(method, path).op = "error"
    /\ req' = [req EXCEPT ![r] = [method |-> method, path |-> path, body |-> Malformed]]
    /\ resp' = [resp EXCEPT ![r] = ErrorResp(RouteOf(method, path).code, RouteOf(method, path).msg)]
    /\ rpc' = [rpc EXCEPT ![r] = "done"]
    /\ UNCHANGED <<store, clock, advances, issued, entity, rfault, sweepVars, fired, delivered>>

\* HandleHTTP -> createTrigger; ok: whether store.Put succeeds
HandleCreate(r, method, path, body, id, ok) ==
    /\ rpc[r] = "idle"
    /\ RouteOf(method, path).op = "create"
    /\ id \in UUIDs \ issued
    /\ req' = [req EXCEPT ![r] = [method |-> method, path |-> path, body |-> body]]
    /\ rpc' = [rpc EXCEPT ![r] = "done"]
    /\ LET input == Decode(body)
           now == Truncate(clock)
           fullEntity == NewEntity(id, now, input)
       IN  IF input.err # "nil"
           THEN /\ resp' = [resp EXCEPT ![r] = ErrorResp(422, "decode error")]
                /\ UNCHANGED <<store, issued, rfault>>
           ELSE /\ issued' = issued \cup {id}
                /\ rfault' = [rfault EXCEPT ![r] = ~ok]
                /\ IF ok
                   THEN /\ store' = [store EXCEPT ![id] = fullEntity]
                        /\ resp' = [resp EXCEPT ![r] = RedirectResp(id)]
                   ELSE /\ resp' = [resp EXCEPT ![r] = ErrorResp(500, "store error")]
                        /\ UNCHANGED store
    /\ UNCHANGED <<clock, advances, entity, sweepVars, fired, delivered>>

\* HandleHTTP -> getTrigger; ok: whether store.Get succeeds (found or not)
HandleGet(r, method, path, ok) ==
    /\ rpc[r] = "idle"
    /\ RouteOf(method, path).op = "get"
    /\ req' = [req EXCEPT ![r] = [method |-> method, path |-> path, body |-> Malformed]]
    /\ rpc' = [rpc EXCEPT ![r] = "done"]
    /\ LET id == RouteOf(method, path).id
       IN  resp' = [resp EXCEPT ![r] =
                IF ~ok THEN ErrorResp(500, "store error")
                ELSE IF store[id] = NoRec THEN ErrorResp(404, NotFoundMsg)
                ELSE EntityResp(store[id])]
    /\ rfault' = [rfault EXCEPT ![r] = ~ok]
    /\ UNCHANGED <<store, clock, advances, issued, entity, sweepVars, fired, delivered>>

\* HandleHTTP -> deleteTrigger; store.Delete of a missing key is no error
HandleDelete(r, method, path, ok) ==
    /\ rpc[r] = "idle"
    /\ RouteOf(method, path).op = "delete"
    /\ req' = [req EXCEPT ![r] = [method |-> method, path |-> path, body |-> Malformed]]
    /\ rpc' = [rpc EXCEPT ![r] = "done"]
    /\ LET id == RouteOf(method, path).id
       IN  IF ok
           THEN /\ store' = [store EXCEPT ![id] = NoRec]
                /\ resp' = [resp EXCEPT ![r] = NoContentResp]
           ELSE /\ resp' = [resp EXCEPT ![r] = ErrorResp(500, "store error")]
                /\ UNCHANGED store
    /\ rfault' = [rfault EXCEPT ![r] = ~ok]
    /\ UNCHANGED <<clock, advances, issued, entity, sweepVars, fired, delivered>>

\* HandleHTTP -> checkinTrigger up to its store.Put: store.Get, then the
\* new check-in and due time on the local entity
CheckinGet(r, method, path, ok) ==
    /\ rpc[r] = "idle"
    /\ RouteOf(method, path).op = "checkin"
    /\ req' = [req EXCEPT ![r] = [method |-> method, path |-> path, body |-> Malformed]]
    /\ LET id == RouteOf(method, path).id
       IN  IF ok /\ store[id] # NoRec
           THEN /\ Len(store[id].Checkins) < MaxCheckins
                /\ entity' = [entity EXCEPT ![r] = CheckedIn(store[id], Truncate(clock))]
                /\ rpc' = [rpc EXCEPT ![r] = "checkin"]
                /\ UNCHANGED resp
           ELSE /\ resp' = [resp EXCEPT ![r] =
                        IF ok THEN ErrorResp(404, NotFoundMsg)
                        ELSE ErrorResp(500, "store error")]
                /\ rpc' = [rpc EXCEPT ![r] = "done"]
                /\ UNCHANGED entity
    /\ rfault' = [rfault EXCEPT ![r] = ~ok]
    /\ UNCHANGED <<store, clock, advances, issued, sweepVars, fired, delivered>>

CheckinPutHalfDone(r, ok) ==
    /\ rpc[r] = "checkin"
    /\ rpc' = [rpc EXCEPT ![r] = "done"]
    /\ store' = [store EXCEPT ![RouteOf(req[r].method, req[r].path).id] = entity[r]]
    /\ resp' = [resp EXCEPT ![r] = IF ok THEN EntityResp(entity[r]) ELSE ErrorResp(500, "store error")]
    /\ rfault' = [rfault EXCEPT ![r] = ~ok]
    /\ UNCHANGED <<clock, advances, issued, req, entity, sweepVars, fired, delivered>>

\* checkinTrigger from its store.Put on
CheckinPut(r, ok) ==
    /\ rpc[r] = "checkin"
    /\ rpc' = [rpc EXCEPT ![r] = "done"]
    /\ IF ok
       THEN /\ store' = [store EXCEPT ![RouteOf(req[r].method, req[r].path).id] = entity[r]]
            /\ resp' = [resp EXCEPT ![r] = EntityResp(entity[r])]
       ELSE /\ resp' = [resp EXCEPT ![r] = ErrorResp(500, "store error")]
            /\ UNCHANGED store
    /\ rfault' = [rfault EXCEPT ![r] = ~ok]
    /\ UNCHANGED <<clock, advances, issued, req, entity, sweepVars, fired, delivered>>

\* the response has gone out; the slot serves the next request
Respond(r) ==
    /\ rpc[r] = "done"
    /\ rpc' = [rpc EXCEPT ![r] = "idle"]
    /\ req' = [req EXCEPT ![r] = NoReq]
    /\ entity' = [entity EXCEPT ![r] = NoRec]
    /\ resp' = [resp EXCEPT ![r] = NoResp]
    /\ rfault' = [rfault EXCEPT ![r] = FALSE]
    /\ UNCHANGED <<store, clock, advances, issued, sweepVars, fired, delivered>>

\* ---------------------------------------------------------------------- sweep
\* datastore.NewQuery(Kind).Filter("DueToFire <= ", now): the entities with
\* DueToFire <= now, in index order (DueToFire, then key)
DueIds(st, now) == {i \in UUIDs : st[i] # NoRec /\ st[i].DueToFire <= now}

Before(st, i, j) == st[i].DueToFire < st[j].DueToFire \/ (st[i].DueToFire = st[j].DueToFire /\ i < j)

RECURSIVE InOrder(_, _)
InOrder(st, ids) ==
    IF ids = {} THEN <<>>
    ELSE LET first == CHOOSE i \in ids : \A j \in ids \ {i} : Before(st, i, j)
         IN  <<st[first]>> \o InOrder(st, ids \ {first})

QueryDue(st, now) == InOrder(st, DueIds(st, now))

\* the arguments of one fireHttpCallback goroutine (id: whose trigger it is)
Callback(t) == [id |-> t.Id, requestUrl |-> t.FireURL, body |-> t.FirePayload]

\* ServeCron up to the first it.Next: the query runs, the first result (if
\* any) is loaded into target and its key into k; ok: whether the query works
SweepQuery(s, ok) ==
    /\ spc[s] = "idle"
    /\ sweeps < MaxSweeps
    /\ sweeps' = sweeps + 1
    /\ qstore' = [qstore EXCEPT ![s] = store]
    /\ qclock' = [qclock EXCEPT ![s] = clock]
    /\ qfired' = [qfired EXCEPT ![s] = fired]
    /\ sfaults' = [sfaults EXCEPT ![s] = IF ok THEN {} ELSE {"query"}]
    /\ LET found == QueryDue(store, clock)
       IN  /\ results' = [results EXCEPT ![s] = found]
           /\ IF ~ok
              THEN /\ err' = [err EXCEPT ![s] = "query error"]
                   /\ spc' = [spc EXCEPT ![s] = "wait"]
                   /\ UNCHANGED <<pos, target, k>>
              ELSE IF found = <<>>
              THEN /\ err' = [err EXCEPT ![s] = "Done"]
                   /\ spc' = [spc EXCEPT ![s] = "wait"]
                   /\ UNCHANGED <<pos, target, k>>
              ELSE /\ err' = [err EXCEPT ![s] = "nil"]
                   /\ pos' = [pos EXCEPT ![s] = 1]
                   /\ target' = [target EXCEPT ![s] = found[1]]
                   /\ k' = [k EXCEPT ![s] = found[1].Id]
                   /\ spc' = [spc EXCEPT ![s] = "launch"]
    /\ UNCHANGED <<store, clock, advances, issued, reqVars, pending, fired, delivered>>

\* loop body, first half: wg.Add(1); go fireHttpCallback(target...)
SweepLaunch(s) ==
    /\ spc[s] = "launch"
    /\ pending' = [pending EXCEPT ![s] = pending[s] \cup {Callback(target[s])}]
    /\ spc' = [spc EXCEPT ![s] = "delete"]
    /\ UNCHANGED <<store, clock, advances, issued, reqVars, results, pos, target, k, err,
                   fired, delivered, sweeps, qstore, qclock, qfired, sfaults>>

\* loop body, second half: err = store.Delete(ctx, k)
SweepDelete(s, ok) ==
    /\ spc[s] = "delete"
    /\ IF ok
       THEN /\ store' = [store EXCEPT ![k[s]] = NoRec]
            /\ err' = [err EXCEPT ![s] = "nil"]
       ELSE /\ err' = [err EXCEPT ![s] = "delete error"]
            /\ UNCHANGED store
    /\ sfaults' = [sfaults EXCEPT ![s] = IF ok THEN sfaults[s] ELSE sfaults[s] \cup {"delete"}]
    /\ spc' = [spc EXCEPT ![s] = "next"]
    /\ UNCHANGED <<clock, advances, issued, reqVars, results, pos, target, k, pending,
                   fired, delivered, sweeps, qstore, qclock, qfired>>

SweepNextSwallowsError(s, ok) ==
    /\ spc[s] = "next"
    /\ IF ~ok \/ pos[s] >= Len(results[s])
       THEN /\ err' = [err EXCEPT ![s] = "Done"]
            /\ spc' = [spc EXCEPT ![s] = "wait"]
            /\ UNCHANGED <<pos, target>>
       ELSE /\ err' = [err EXCEPT ![s] = "nil"]
            /\ pos' = [pos EXCEPT ![s] = pos[s] + 1]
            /\ target' = [target EXCEPT ![s] = results[s][pos[s] + 1]]
            /\ spc' = [spc EXCEPT ![s] = "launch"]
    /\ sfaults' = [sfaults EXCEPT ![s] = IF ok THEN sfaults[s] ELSE sfaults[s] \cup {"query"}]
    /\ UNCHANGED <<store, clock, advances, issued, reqVars, results, k, pending,
                   fired, delivered, sweeps, qstore, qclock, qfired>>

\* the loop's post statement and condition: _, err = it.Next(&target)
SweepNext(s, ok) ==
    /\ spc[s] = "next"
    /\ IF ~ok
       THEN /\ err' = [err EXCEPT ![s] = "query error"]
            /\ spc' = [spc EXCEPT ![s] = "wait"]
            /\ UNCHANGED <<pos, target>>
       ELSE IF pos[s] >= Len(results[s])
       THEN /\ err' = [err EXCEPT ![s] = "Done"]
            /\ spc' = [spc EXCEPT ![s] = "wait"]
            /\ UNCHANGED <<pos, target>>
       ELSE /\ err' = [err EXCEPT ![s] = "nil"]
            /\ pos' = [pos EXCEPT ![s] = pos[s] + 1]
            /\ target' = [target EXCEPT ![s] = results[s][pos[s] + 1]]
            /\ spc' = [spc EXCEPT ![s] = "launch"]
    /\ sfaults' = [sfaults EXCEPT ![s] = IF ok THEN sfaults[s] ELSE sfaults[s] \cup {"query"}]
    /\ UNCHANGED <<store, clock, advances, issued, reqVars, results, k, pending,
                   fired, delivered, sweeps, qstore, qclock, qfired>>

FireCallbackAborts(s, c, ok) ==
    /\ c \in pending[s]
    /\ fired' = [fired EXCEPT ![c.id] = fired[c.id] + 1]
    /\ delivered' = [delivered EXCEPT ![c.id] = IF ok THEN delivered[c.id] + 1 ELSE delivered[c.id]]
    /\ pending' = [pending EXCEPT ![s] = pending[s] \ {c}]
    /\ err' = [err EXCEPT ![s] = IF ok THEN err[s] ELSE "callback error"]
    /\ UNCHANGED <<store, clock, advances, issued, reqVars, spc, results, pos, target, k,
                   sweeps, qstore, qclock, qfired, sfaults>>

\* fireHttpCallback: one POST to the url with the payload, then group.Done();
\* ok: whether the POST succeeded (only logged)
FireCallback(s, c, ok) ==
    /\ c \in pending[s]
    /\ fired' = [fired EXCEPT ![c.id] = fired[c.id] + 1]
    /\ delivered' = [delivered EXCEPT ![c.id] = IF ok THEN delivered[c.id] + 1 ELSE delivered[c.id]]
    /\ pending' = [pending EXCEPT ![s] = pending[s] \ {c}]
    /\ UNCHANGED <<store, clock, advances, issued, reqVars, spc, results, pos, target, k,
                   err, sweeps, qstore, qclock, qfired, sfaults>>

SweepWaitNoJoin(s) ==
    /\ spc[s] = "wait"
    /\ err' = [err EXCEPT ![s] = IF err[s] = "Done" THEN "nil" ELSE err[s]]
    /\ spc' = [spc EXCEPT ![s] = "returned"]
    /\ UNCHANGED <<store, clock, advances, issued, reqVars, results, pos, target, k,
                   pending, fired, delivered, sweeps, qstore, qclock, qfired, sfaults>>

\* if err == iterator.Done { err = nil }; wg.Wait(); return err
SweepWait(s) ==
    /\ spc[s] = "wait"
    /\ pending[s] = {}
    /\ err' = [err EXCEPT ![s] = IF err[s] = "Done" THEN "nil" ELSE err[s]]
    /\ spc' = [spc EXCEPT ![s] = "returned"]
    /\ UNCHANGED <<store, clock, advances, issued, reqVars, results, pos, target, k,
                   pending, fired, delivered, sweeps, qstore, qclock, qfired, sfaults>>

\* the invocation is over; the next one starts afresh
SweepReset(s) ==
    /\ spc' = [spc EXCEPT ![s] = "idle"]
    /\ results' = [results EXCEPT ![s] = <<>>]
    /\ pos' = [pos EXCEPT ![s] = 0]
    /\ target' = [target EXCEPT ![s] = NoRec]
    /\ k' = [k EXCEPT ![s] = 0]
    /\ err' = [err EXCEPT ![s] = "nil"]
    /\ pending' = [pending EXCEPT ![s] = {}]
    /\ qstore' = [qstore EXCEPT ![s] = EmptyStore]
    /\ qclock' = [qclock EXCEPT ![s] = 0]
    /\ qfired' = [qfired EXCEPT ![s] = [i \in UUIDs |-> 0]]
    /\ sfaults' = [sfaults EXCEPT ![s] = {}]
    /\ UNCHANGED <<store, clock, advances, issued, reqVars, fired, delivered, sweeps>>

\* the invoker has the result, or has seen the process die
SweepReturn(s) ==
    /\ spc[s] \in {"returned", "crashed"}
    /\ SweepReset(s)

\* the process running ServeCron dies: its goroutines die with it
Crash(s) ==
    /\ spc[s] \in {"launch", "delete", "next", "wait"}
    /\ spc' = [spc EXCEPT ![s] = "crashed"]
    /\ pending' = [pending EXCEPT ![s] = {}]
    /\ UNCHANGED <<store, clock, advances, issued, reqVars, results, pos, target, k, err,
                   fired, delivered, sweeps, qstore, qclock, qfired, sfaults>>

\* ------------------------------------------------- the router of handler.go
\* NotFound.Error()
StubNotFoundMsg == "The requested resource could not be found"

\* MethodNotAllowed.Error(): the methods as fmt prints a []string
MethodNotAllowedMsg(methods) == "Method not allowed. Supported methods: " \o methods

\* a lifecycle stub of handler.go: it writes its name and returns nil
StubResp(name) == [NoResp EXCEPT !.status = 200, !.text = name]

\* the switch of handler.go's HandleHTTP: the response it leads to
HandlerRoute(method, path) ==
    LET segments == Split(path)
        length == Len(segments)
    IN  IF length >= 1 /\ segments[1] = "triggers"
        THEN CASE length = 1 ->
                    IF method = "POST" THEN StubResp("CreateTrigger")
                    ELSE ErrorResp(405, MethodNotAllowedMsg("[POST]"))
               [] length = 2 ->
                    IF FromString(segments[2]) = 0
                    THEN CASE method = "GET" -> StubResp("GetTrigger")
                           [] method = "DELETE" -> StubResp("DeleteTrigger")
                           [] OTHER -> ErrorResp(405, MethodNotAllowedMsg("[GET DELETE]"))
                    ELSE ErrorResp(404, StubNotFoundMsg)
               [] length = 3 ->
                    IF FromString(segments[2]) # 0 /\ segments[3] = "checkin"
                    THEN IF method = "POST" THEN StubResp("CheckinTrigger")
                         ELSE ErrorResp(405, MethodNotAllowedMsg("[POST]"))
                    ELSE ErrorResp(404, StubNotFoundMsg)
               [] OTHER -> ErrorResp(404, StubNotFoundMsg)
        ELSE ErrorResp(404, StubNotFoundMsg)

\* the paths as served, and the same without the leading "/"
HandlerPaths == AllPaths \cup {PathOf(Tail(l)) : l \in {m \in SegLists : Len(m) >= 2}}

HandlerRequests == [method : Methods, path : HandlerPaths]

\* HandleHTTP of handler.go, whole: its lifecycle operations are stubs
HandleHTTP(r, method, path) ==
    /\ rpc[r] = "idle"
    /\ req' = [req EXCEPT ![r] = [method |-> method, path |-> path, body |-> Malformed]]
    /\ resp' = [resp EXCEPT ![r] = HandlerRoute(method, path)]
    /\ rpc' = [rpc EXCEPT ![r] = "done"]
    /\ UNCHANGED <<store, clock, advances, issued, entity, rfault, sweepVars, fired, delivered>>

\* ------------------------------------------------------------ specifications
\* the goroutines ServeCron can launch
Callbacks == [id : UUIDs, requestUrl : URLsIn \cup {""}, body : PayloadsIn \cup {""}]

\* nothing is being handled and no sweep runs
Quiet == (\A r \in Reqs : rpc[r] = "idle") /\ (\A s \in Sweeps : spc[s] = "idle")

\* no request is being handled
NoRequest == \A r \in Reqs : rpc[r] = "idle"

\* a request of qs reaches a lifecycle operation (a create with a body of
\* bs) and HandleHTTP runs up to its first store operation included; oks: the
\* outcomes the store operations can have; alone: requests come one at a time
RequestArrives(rs, qs, bs, oks, alone) ==
    \/ \E r \in rs, q \in qs, b \in bs, i \in UUIDs, ok \in oks :
            (alone => Quiet) /\ HandleCreate(r, q.method, q.path, b, i, ok)
    \/ \E r \in rs, q \in qs, ok \in oks :
            (alone => Quiet) /\ HandleGet(r, q.method, q.path, ok)
    \/ \E r \in rs, q \in qs, ok \in oks :
            (alone => Quiet) /\ HandleDelete(r, q.method, q.path, ok)
    \/ \E r \in rs, q \in qs, ok \in oks :
            (alone => Quiet) /\ CheckinGet(r, q.method, q.path, ok)

\* a request of qs is answered by the router itself
RequestRejected(rs, qs, alone) ==
    \E r \in rs, q \in qs : (alone => Quiet) /\ HandleRejected(r, q.method, q.path)

\* a request already being handled goes on
RequestProceeds(rs, oks) ==
    \/ \E r \in rs, ok \in oks : CheckinPut(r, ok)
    \/ \E r \in rs : Respond(r)

\* a ServeCron invocation already started goes on; cbs: the outcomes the
\* POSTs of the callbacks can have
SweepProceeds(ss, oks, cbs) ==
    \/ \E s \in ss : SweepLaunch(s)
    \/ \E s \in ss, ok \in oks : SweepDelete(s, ok)
    \/ \E s \in ss, ok \in oks : SweepNext(s, ok)
    \/ \E s \in ss, c \in Callbacks, ok \in cbs : FireCallback(s, c, ok)
    \/ \E s \in ss : SweepWait(s)
    \/ \E s \in ss : SweepReturn(s)

\* one operation at a time, every store operation succeeds, no crash
NextSeq ==
    \/ \E d \in {1, Hour} : Tick(d)
    \/ RequestArrives({1}, Requests, Bodies, {TRUE}, TRUE)
    \/ RequestRejected({1}, Requests, TRUE)
    \/ RequestProceeds({1}, {TRUE})
    \/ Quiet /\ SweepQuery(1, TRUE)
    \/ SweepProceeds({1}, {TRUE}, {TRUE})

SpecSeq == Init /\ [][NextSeq]_vars

\* the interactive requests alone, one at a time, every store operation succeeds
NextLife ==
    \/ \E d \in {1, Hour} : Tick(d)
    \/ RequestArrives({1}, Requests, Bodies, {TRUE}, TRUE)
    \/ RequestRejected({1}, Requests, TRUE)
    \/ RequestProceeds({1}, {TRUE})

SpecLife == Init /\ [][NextLife]_vars

\* requests overlap each other; every store operation succeeds
Next ==
    \/ \E d \in {1, Hour} : Tick(d)
    \/ RequestArrives(Reqs, GoodRequests, PlainBodies, {TRUE}, FALSE)
    \/ RequestProceeds(Reqs, {TRUE})

Spec == Init /\ [][Next]_vars

\* sweeps overlap each other; requests come one at a time between them
NextSweeps ==
    \/ \E d \in {1, Hour} : Tick(d)
    \/ RequestArrives({1}, GoodRequests, PlainBodies, {TRUE}, TRUE)
    \/ RequestProceeds({1}, {TRUE})
    \/ \E s \in Sweeps : NoRequest /\ SweepQuery(s, TRUE)
    \/ SweepProceeds(Sweeps, {TRUE}, {TRUE})

SpecSweeps == Init /\ [][NextSweeps]_vars

\* one sweep at a time, and the process running it can die at any point
NextCrash ==
    \/ \E d \in {1, Hour} : Tick(d)
    \/ RequestArrives({1}, GoodRequests, PlainBodies, {TRUE}, TRUE)
    \/ RequestProceeds({1}, {TRUE})
    \/ Quiet /\ SweepQuery(1, TRUE)
    \/ SweepProceeds({1}, {TRUE}, {TRUE})
    \/ Crash(1)

SpecCrash == Init /\ [][NextCrash]_vars

\* a request overlaps a sweep; every store operation succeeds
NextRace ==
    \/ \E d \in {1, Hour} : Tick(d)
    \/ RequestArrives({1}, GoodRequests, PlainBodies, {TRUE}, FALSE)
    \/ RequestProceeds({1}, {TRUE})
    \/ SweepQuery(1, TRUE)
    \/ SweepProceeds({1}, {TRUE}, {TRUE})

SpecRace == Init /\ [][NextRace]_vars

\* the interactive requests alone, one at a time; a store operation can fail
NextFaults ==
    \/ \E d \in {1, Hour} : Tick(d)
    \/ RequestArrives({1}, Requests, Bodies, BOOLEAN, TRUE)
    \/ RequestRejected({1}, Requests, TRUE)
    \/ RequestProceeds({1}, BOOLEAN)

SpecFaults == Init /\ [][NextFaults]_vars

\* no request is being handled and no other invocation of ServeCron is
\* running; the n-th invocation takes slot n
Alone(s) ==
    /\ NoRequest
    /\ \A o \in Sweeps \ {s} : spc[o] \in {"idle", "returned"}
    /\ sweeps = s - 1

\* the triggers are created, then sweeps run one after another; the query, a
\* delete and a callback's POST can fail
NextCron ==
    \/ \E d \in {1, Hour} : Tick(d)
    \/ \E i \in UUIDs, b \in OverdueBodies :
            Quiet /\ HandleCreate(1, "POST", <<"/", "triggers">>, b, i, TRUE)
    \/ \E r \in {1} : Respond(r)
    \/ \E s \in Sweeps, ok \in BOOLEAN : Alone(s) /\ SweepQuery(s, ok)
    \/ SweepProceeds(Sweeps, BOOLEAN, BOOLEAN)

SpecCron == Init /\ [][NextCron]_vars

\* every method on every path, one request at a time, every store operation
\* succeeds; the clock stands still
NextRouter ==
    \/ RequestArrives({1}, AllRequests, RouterBodies, {TRUE}, TRUE)
    \/ RequestRejected({1}, AllRequests, TRUE)
    \/ RequestProceeds({1}, {TRUE})

SpecRouter == Init /\ [][NextRouter]_vars

\* the router of handler.go, one request at a time
NextHandler ==
    \/ \E q \in HandlerRequests : HandleHTTP(1, q.method, q.path)
    \/ \E r \in {1} : Respond(r)

SpecHandler == Init /\ [][NextHandler]_vars

\* ======================================================================
\* Claims
\* ======================================================================
DueAtQuery(s) == DueIds(qstore[s], qclock[s])

FiredBy(s, i) == fired[i] - qfired[s][i]

\* C1: a sweep run alone, with no store failure, issues exactly one callback
\* for every trigger that was due at its query and none for the others, and
\* when it returns the store holds exactly the triggers that were not due.
C1_SweepFiresAndRemovesEveryDue ==
    \A s \in Sweeps :
        spc[s] = "returned" =>
            /\ \A i \in UUIDs : FiredBy(s, i) = IF i \in DueAtQuery(s) THEN 1 ELSE 0
            /\ store = [i \in UUIDs |-> IF i \in DueAtQuery(s) THEN NoRec ELSE qstore[s][i]]

\* C2: over crash-free sweeps that do not overlap and whose store operations
\* all succeed, the callback of a trigger is issued at most once.
C2_FiredAtMostOnce == \A i \in UUIDs : fired[i] <= 1

\* C3: when the process running a sweep has died, every trigger that was due
\* at the sweep's query and whose callback has not been attempted is still in
\* the store and still due (no record is deleted before its POST is attempted).
C3_CrashLosesNoFire ==
    \A s \in Sweeps :
        spc[s] = "crashed" =>
            \A i \in DueAtQuery(s) :
                FiredBy(s, i) = 0 => (store[i] # NoRec /\ store[i].DueToFire <= clock)

\* both sweeps have returned, and each ran its query before the other had
\* deleted or fired anything: they overlapped and saw the same due triggers
BothReturnedOverlapping ==
    /\ spc[1] = "returned" /\ spc[2] = "returned"
    /\ qstore[1] = qstore[2] /\ qfired[1] = qfired[2]

\* C4: when two overlapping sweeps that both saw a due trigger have returned,
\* the trigger is gone from the store and its callback has been attempted
\* once or twice.
C4_OverlappingSweepsRemove ==
    BothReturnedOverlapping =>
        \A i \in DueAtQuery(1) \cap DueAtQuery(2) :
            /\ store[i] = NoRec
            /\ FiredBy(1, i) \in {1, 2}

\* request r is a check-in on id i that has been answered with the entity
CheckedInOk(r, i) ==
    /\ rpc[r] = "done"
    /\ Route(req[r].method, req[r].path) = RouteTo("checkin", i)
    /\ resp[r].status = 200

\* C5: when two check-ins on the same id have both returned success, the
\* stored checkins holds an entry for each: it is what one of them wrote,
\* extended by the entry of the other.
C5_NoLostCheckin ==
    \A i \in UUIDs :
        (CheckedInOk(1, i) /\ CheckedInOk(2, i) /\ store[i] # NoRec) =>
            \E r \in Reqs : \E o \in Reqs \ {r} :
                store[i].Checkins =
                    Append(resp[o].entity.checkins, Last(resp[r].entity.checkins))

\* C6: every stored trigger has a non-empty checkins and
\* dueAt = last(checkins) + intervalHours hours.
C6_DueIsLastCheckinPlusInterval ==
    \A i \in UUIDs :
        store[i] # NoRec =>
            /\ Len(store[i].Checkins) >= 1
            /\ store[i].DueToFire = Last(store[i].Checkins) + store[i].HoursBetweenFire * Hour

\* a trigger created at one time and checked in at a later one is stored
C6_Witness ==
    \E i \in UUIDs :
        /\ store[i] # NoRec
        /\ Len(store[i].Checkins) >= 2
        /\ store[i].Checkins[1] < Last(store[i].Checkins)

\* request r is taken up by HandleHTTP in this step
Arrives(r) == rpc[r] = "idle" /\ rpc'[r] # "idle"

\* request r, a check-in on id i, completes its store.Put in this step
CheckinWrites(r, i) ==
    /\ rpc[r] = "checkin" /\ rpc'[r] = "done"
    /\ Route(req[r].method, req[r].path) = RouteTo("checkin", i)
    /\ resp'[r].status = 200

IsPrefix(a, b) == Len(a) <= Len(b) /\ SubSeq(b, 1, Len(a)) = a

StrictlyIncreasing(c) == \A a, b \in 1..Len(c) : a < b => c[a] < c[b]

NonDecreasing(c) == \A a, b \in 1..Len(c) : a < b => c[a] <= c[b]

\* every step treats checkins as append-only: a new record has one entry, a
\* successful check-in adds exactly one entry at the end, and no step changes
\* or removes an entry of a record that stays
AppendOnlyStep ==
    \A i \in UUIDs :
        /\ (store[i] = NoRec /\ store'[i] # NoRec) => Len(store'[i].Checkins) = 1
        /\ (store[i] # NoRec /\ store'[i] # NoRec) =>
                IsPrefix(store[i].Checkins, store'[i].Checkins)
        /\ \A r \in Reqs :
                CheckinWrites(r, i) =>
                    /\ store[i] # NoRec
                    /\ Len(store'[i].Checkins) = Len(store[i].Checkins) + 1

\* C7 as stated: with check-ins one after another, checkins is append-only, has
\* one entry per check-in (creation is the first), and is strictly increasing.
C7_AppendOnlyStrictlyIncreasing ==
    [][/\ AppendOnlyStep
       /\ \A i \in UUIDs : store'[i] # NoRec => StrictlyIncreasing(store'[i].Checkins)]_vars

\* C7 amended: as C7, but the sequence is non-decreasing: two check-ins in
\* the same whole second leave equal entries.
C7_AppendOnlyNonDecreasing ==
    [][/\ AppendOnlyStep
       /\ \A i \in UUIDs : store'[i] # NoRec => NonDecreasing(store'[i].Checkins)]_vars

\* a check-in made at a later instant of the second of the creation has been
\* answered: the two entries are equal
C7_Witness ==
    \E i \in UUIDs :
        /\ CheckedInOk(1, i)
        /\ clock = 1
        /\ Len(store[i].Checkins) = 2
        /\ store[i].Checkins = <<0, 0>>
        /\ resp[1].entity.checkins = store[i].Checkins

BadIdPaths == {<<"/", "triggers", "/", "bad">>, <<"/", "triggers", "/", "bad", "/", "checkin">>}

\* C8: Get, Delete and CheckIn answer 404 when no record exists under a
\* well-formed id, and when the id does not parse.
C8_NotFoundSymmetry ==
    [][\A r \in Reqs :
          Arrives(r) =>
              LET q == req'[r]
                  to == Route(q.method, q.path)
              IN  /\ (to.op \in {"get", "delete", "checkin"} /\ store[to.id] = NoRec) =>
                          (rpc'[r] = "done" /\ resp'[r].status = 404)
                  /\ q.path \in BadIdPaths => (rpc'[r] = "done" /\ resp'[r].status = 404)]_vars

\* the number a body gives for hoursBetweenFire (0 when it gives none)
HoursGiven(b) == IF b.hoursBetweenFire = Absent THEN 0 ELSE ParseInt(b.hoursBetweenFire)

TextGiven(v) == IF v = Absent THEN "" ELSE v

WellFormed(b) == b # Malformed /\ b.hoursBetweenFire # NotInt

\* C9: a Create whose hoursBetweenFire is 0 or negative, or whose fireURL is
\* missing, is answered 422 and leaves the store unchanged.
C9_InvalidCreateRejected ==
    [][\A r \in Reqs :
          (/\ Arrives(r)
           /\ Route(req'[r].method, req'[r].path).op = "create"
           /\ WellFormed(req'[r].body)
           /\ (HoursGiven(req'[r].body) <= 0 \/ req'[r].body.fireURL = Absent)) =>
              (resp'[r].status = 422 /\ store' = store)]_vars

\* a successful Create answers 307 with the Location of a fresh id and adds
\* exactly the record of its inputs under that id
CreateStep(r) ==
    (/\ Arrives(r)
     /\ Route(req'[r].method, req'[r].path).op = "create"
     /\ resp'[r].status = 307) =>
        \E id \in UUIDs :
            LET b == req'[r].body
                t == store'[id]
            IN  /\ resp'[r].location = BaseURL \o <<"/", "triggers", "/", UUIDText(id)>>
                /\ id \notin issued /\ store[id] = NoRec
                /\ \A j \in UUIDs \ {id} : store'[j] = store[j]
                /\ t # NoRec /\ t.Id = id
                /\ t.HoursBetweenFire = HoursGiven(b)
                /\ t.FireURL = TextGiven(b.fireURL)
                /\ t.FirePayload = TextGiven(b.firePayload)
                /\ Len(t.Checkins) = 1
                /\ t.Checkins[1] <= clock /\ clock - t.Checkins[1] < Second
                /\ t.Checkins[1] % Second = 0
                /\ t.DueToFire = t.Checkins[1] + HoursGiven(b) * Hour

\* a GET of the path a Location names yields the stored record unchanged
GetStep(r) ==
    \A id \in UUIDs :
        (/\ Arrives(r)
         /\ req'[r].method = "GET"
         /\ BaseURL \o req'[r].path = LocationOf(id)
         /\ store[id] # NoRec) =>
            /\ resp'[r].status = 200
            /\ store' = store
            /\ resp'[r].entity.id = UUIDText(id)
            /\ resp'[r].entity.due = store[id].DueToFire
            /\ resp'[r].entity.hoursBetweenFire = store[id].HoursBetweenFire
            /\ resp'[r].entity.checkins = store[id].Checkins
            /\ resp'[r].entity.fireURL = store[id].FireURL
            /\ resp'[r].entity.firePayload = store[id].FirePayload

\* C10: a successful Create answers 307 with Location /triggers/{id}, adds
\* exactly one record under a fresh id, and a Get of that id yields the
\* inputs, dueAt = now + intervalHours hours and one check-in (now).
C10_RoundTrip == [][\A r \in Reqs : CreateStep(r) /\ GetStep(r)]_vars

\* a trigger that has only been created has been read back
C10_Witness ==
    \E i \in UUIDs :
        /\ rpc[1] = "done"
        /\ req[1].method = "GET"
        /\ BaseURL \o req[1].path = LocationOf(i)
        /\ resp[1].status = 200
        /\ resp[1].entity.hoursBetweenFire = 1
        /\ resp[1].entity.fireURL = "u"
        /\ Len(resp[1].entity.checkins) = 1
\* C11: a ServeCron invocation that has returned, the query exhausted or
\* failed partway, has none of the callbacks it launched still in flight.
C11_NoCallbackInFlightAtReturn ==
    \A s \in Sweeps : spc[s] = "returned" => pending[s] = {}

\* a sweep whose query failed after it had launched a callback has returned
C11_Witness ==
    \E s \in Sweeps :
        /\ spc[s] = "returned"
        /\ "query" \in sfaults[s]
        /\ pos[s] >= 1
        /\ \E i \in UUIDs : FiredBy(s, i) >= 1

\* C12: a ServeCron invocation in which a store delete failed returns a
\* non-nil error.
C12_DeleteFailureReported ==
    \A s \in Sweeps :
        (spc[s] = "returned" /\ "delete" \in sfaults[s]) => err[s] # "nil"

\* the ids of the results the iterator of sweep s has yielded so far
Seen(s) == {results[s][n].Id : n \in 1..pos[s]}

\* the triggers due at the query of sweep s that it has not seen
Unseen(s) == DueAtQuery(s) \ Seen(s)

\* sweep o is an invocation later than sweep s, and its query found trigger i
\* as the query of sweep s had found it
QueriedAfter(o, s, i) ==
    /\ o > s
    /\ spc[o] # "idle"
    /\ qstore[o][i] = qstore[s][i]
    /\ qfired[o][i] = qfired[s][i]

\* C13: a sweep whose range query has failed enumerates no further and keeps
\* that error as its result; the due triggers it had not seen are neither
\* fired nor deleted by it and stay due in the store, and a later sweep whose
\* query succeeds fires them.
C13_QueryFailureLeavesUnseen ==
    \A s \in Sweeps :
        "query" \in sfaults[s] =>
            /\ spc[s] \in {"wait", "returned"}
            /\ err[s] = "query error"
            /\ \A i \in Unseen(s) :
                    /\ sweeps = s =>
                            /\ FiredBy(s, i) = 0
                            /\ store[i] = qstore[s][i]
                            /\ i \in DueIds(store, clock)
                    /\ \A o \in Sweeps \ {s} :
                            (/\ spc[o] = "returned"
                             /\ "query" \notin sfaults[o]
                             /\ QueriedAfter(o, s, i)) => FiredBy(o, i) >= 1

\* a sweep failed after its first result, and the sweep after it has fired the
\* trigger the first had not seen
C13_Witness ==
    \E i \in UUIDs :
        /\ spc[1] = "returned" /\ "query" \in sfaults[1] /\ pos[1] = 1
        /\ i \in Unseen(1)
        /\ spc[2] = "returned" /\ sfaults[2] = {}
        /\ QueriedAfter(2, 1, i)
        /\ FiredBy(2, i) = 1
        /\ store[i] = NoRec

\* C14: the step in which a callback's POST ends, whatever its outcome,
\* changes nothing of the sweep but the set of callbacks in flight (no store
\* operation, no change of the loop's position or of err), and the result a
\* sweep returns is determined by the outcomes of its store operations alone.
C14_CallbackOutcomeIsolated ==
    [][/\ \A i \in UUIDs :
              fired'[i] # fired[i] =>
                  /\ fired'[i] = fired[i] + 1
                  /\ delivered'[i] \in {delivered[i], delivered[i] + 1}
                  /\ \E s \in Sweeps : \E c \in pending[s] :
                          /\ c.id = i
                          /\ pending' = [pending EXCEPT ![s] = pending[s] \ {c}]
                  /\ UNCHANGED <<store, spc, results, pos, target, k, err, sfaults>>
       /\ \A s \in Sweeps :
              spc'[s] = "returned" =>
                  err'[s] = IF "query" \in sfaults'[s] THEN "query error" ELSE "nil"]_vars

\* a sweep has returned nil and deleted, one of its two POSTs having failed
C14_Witness ==
    \E i \in UUIDs : \E j \in UUIDs \ {i} :
        /\ spc[1] = "returned" /\ err[1] = "nil" /\ sfaults[1] = {}
        /\ FiredBy(1, i) = 1 /\ FiredBy(1, j) = 1
        /\ delivered[i] = 0 /\ delivered[j] = 1
        /\ store[k[1]] = NoRec
\* the segments each path was written from
Written == [p \in AllPaths |-> CHOOSE l \in SegLists : PathOf(l) = p]

SegsOf(path) == Written[path]

\* the text is an id in one of the forms uuid.FromString reads
ValidId(seg) == \E i \in UUIDs : seg \in {UUIDText(i), UUIDBraced(i)}

OnCollection(l) == Len(l) = 2 /\ l[1] = "" /\ l[2] = "triggers"
OnItem(l) == Len(l) = 3 /\ l[1] = "" /\ l[2] = "triggers" /\ ValidId(l[3])
OnCheckin(l) == Len(l) = 4 /\ l[1] = "" /\ l[2] = "triggers" /\ ValidId(l[3]) /\ l[4] = "checkin"

\* the operation a request is for, "error" if for none
OpFor(method, l) ==
    CASE OnCollection(l) /\ method = "POST" -> "create"
      [] OnItem(l) /\ method = "GET" -> "get"
      [] OnItem(l) /\ method = "DELETE" -> "delete"
      [] OnCheckin(l) /\ method = "POST" -> "checkin"
      [] OTHER -> "error"

\* C15: /triggers under a method other than POST is answered 405 listing
\* POST, /triggers/{id} with a valid id under a method other than GET and
\* DELETE 405 listing GET, DELETE, /triggers/{id}/checkin with a valid id
\* under a method other than POST 405 listing POST, every other path 404
\* under every method, and the remaining requests go each to its operation.
C15_RouterTotal ==
    [][\A r \in Reqs :
          Arrives(r) =>
              LET method == req'[r].method
                  l == SegsOf(req'[r].path)
                  to == RouteOf(method, req'[r].path)
              IN  /\ to.op = OpFor(method, l)
                  /\ (OnCollection(l) /\ method # "POST") =>
                          (rpc'[r] = "done" /\ resp'[r] = ErrorResp(405, PostOnlyMsg))
                  /\ (OnItem(l) /\ method \notin {"GET", "DELETE"}) =>
                          (rpc'[r] = "done" /\ resp'[r] = ErrorResp(405, GetDeleteMsg))
                  /\ (OnCheckin(l) /\ method # "POST") =>
                          (rpc'[r] = "done" /\ resp'[r] = ErrorResp(405, PostOnlyMsg))
                  /\ ~(OnCollection(l) \/ OnItem(l) \/ OnCheckin(l)) =>
                          (rpc'[r] = "done" /\ resp'[r] = ErrorResp(404, NotFoundMsg))
                  /\ OpFor(method, l) = "create" => resp'[r].status \in {307, 422}
                  /\ OpFor(method, l) = "get" => resp'[r].status \in {200, 404}
                  /\ OpFor(method, l) = "delete" => resp'[r].status = 204
                  /\ OpFor(method, l) = "checkin" =>
                          (rpc'[r] = "checkin" \/ resp'[r].status = 404)]_vars

\* a check-in path with a braced id and a fifth segment has been answered 404,
\* whatever the method
C15_Witness ==
    /\ rpc[1] = "done"
    /\ req[1].method = "POST"
    /\ req[1].path = <<"/", "triggers", "/", UUIDBraced(1), "/", "checkin", "/", "x">>
    /\ resp[1] = ErrorResp(404, NotFoundMsg)
\* C16: a record that has been removed from the store (its id has been issued
\* and nothing is stored under it) is never stored again.
C16_RemovedStaysRemoved ==
    [][\A i \in UUIDs : (i \in issued /\ store[i] = NoRec) => store'[i] = NoRec]_vars
\* the stored record of trigger i is due only later (a check-in has renewed it)
Renewed(i) == store[i] # NoRec /\ store[i].DueToFire > clock

\* C17: a sweep does not launch the callback of a trigger whose stored record
\* a check-in has renewed since the sweep's query, and does not delete a
\* renewed record.
C17_SweepSparesRenewed ==
    [][\A s \in Sweeps :
          /\ (spc[s] = "launch" /\ spc'[s] = "delete") => ~Renewed(target[s].Id)
          /\ (spc[s] = "delete" /\ store'[k[s]] # store[k[s]]) => ~Renewed(k[s])]_vars
\* the path is the triggers prefix followed by one segment, with or without
\* the leading "/"
OneSegmentAfterPrefix(path) ==
    \E x \in SegmentsAt[3] : path \in {<<"triggers", "/", x>>, <<"/", "triggers", "/", x>>}

StubOps == {"CreateTrigger", "GetTrigger", "DeleteTrigger", "CheckinTrigger"}

\* C18: handler.go answers a request on the triggers prefix followed by one
\* segment by getTrigger (GET), deleteTrigger (DELETE) or 405 listing GET,
\* DELETE (other methods) when the segment is a valid id, and by 404 without
\* calling a lifecycle operation when it is not.
C18_HandlerItemDispatch ==
    \A r \in Reqs :
        (rpc[r] = "done" /\ OneSegmentAfterPrefix(req[r].path)) =>
            IF ValidId(Last(req[r].path))
            THEN resp[r] = CASE req[r].method = "GET" -> StubResp("GetTrigger")
                             [] req[r].method = "DELETE" -> StubResp("DeleteTrigger")
                             [] OTHER -> ErrorResp(405, MethodNotAllowedMsg("[GET DELETE]"))
            ELSE resp[r].status = 404 /\ resp[r].text \notin StubOps
\* the response is one the error branch of HandleHTTP writes
IsErrorResp(w) == w = ErrorResp(w.status, w.text)

\* the response is one sendEntity writes and nothing else
IsEntityResp(w) ==
    /\ w.status = 200 /\ w.ctype = "application/json" /\ w.text = ""
    /\ w.entity # NoJSON /\ w.location = <<>>

\* what request r has been answered is the one response its outcome calls for
OneResponse(r) ==
    LET w == resp[r]
        to == RouteOf(req[r].method, req[r].path)
    IN  /\ rpc[r] \in {"idle", "checkin"} => w = NoResp
        /\ rpc[r] = "done" =>
              /\ w # NoResp
              /\ IsErrorResp(w) \/ IsEntityResp(w) \/ w = NoContentResp
                    \/ \E i \in UUIDs : w = RedirectResp(i)
              /\ IsErrorResp(w) => w.status \in {404, 405, 422, 500}
              /\ rfault[r] <=> (IsErrorResp(w) /\ w.status = 500)
              /\ (~rfault[r] /\ to.op = "error") =>
                      (w = ErrorResp(to.code, to.msg) /\ to.code \in {404, 405})
              /\ (~rfault[r] /\ to.op = "create") =>
                      IF WellFormed(req[r].body)
                      THEN \E i \in UUIDs : w = RedirectResp(i)
                      ELSE IsErrorResp(w) /\ w.status = 422
              /\ (~rfault[r] /\ to.op \in {"get", "checkin"}) =>
                      (IsEntityResp(w) \/ w = ErrorResp(404, NotFoundMsg))
              /\ (~rfault[r] /\ to.op = "delete") => w = NoContentResp

\* C19: every request is answered by exactly one response, the success
\* response of its operation (200 with the trigger, 204, 307) or one error
\* response (404, 405, 422 for a body that does not decode, 500 for a failed
\* store operation); a failed store operation leaves the store unchanged.
C19_OneResponsePerRequest ==
    [][\A r \in Reqs :
          /\ OneResponse(r)'
          /\ (rfault'[r] /\ ~rfault[r]) => store' = store]_vars

\* a check-in whose store.Get found the record and whose store.Put failed has
\* been answered 500, and the stored record is as it was
C19_Witness ==
    \E i \in UUIDs :
        /\ rpc[1] = "done" /\ rfault[1]
        /\ RouteOf(req[1].method, req[1].path) = RouteTo("checkin", i)
        /\ entity[1] # NoRec
        /\ resp[1] = ErrorResp(500, "store error")
        /\ store[i] # NoRec /\ Len(store[i].Checkins) = 1
\* request r arrives in this step and is routed to operation op on id i
ArrivesFor(r, op, i) ==
    /\ Arrives(r)
    /\ RouteOf(req'[r].method, req'[r].path) = RouteTo(op, i)

OthersKept(i) == \A j \in UUIDs \ {i} : store'[j] = store[j]

\* C20: Get leaves the store as it is; CheckIn on an id without a record
\* writes nothing; a successful CheckIn changes only the due time and the
\* checkins of the record of its id; Delete changes no record but that of
\* its id.
C20_FrameConditions ==
    [][\A r \in Reqs : \A i \in UUIDs :
          /\ ArrivesFor(r, "get", i) => store' = store
          /\ ArrivesFor(r, "checkin", i) => store' = store
          /\ (ArrivesFor(r, "checkin", i) /\ store[i] = NoRec) => rpc'[r] = "done"
          /\ CheckinWrites(r, i) =>
                /\ OthersKept(i)
                /\ store[i] # NoRec
                /\ store'[i].Id = store[i].Id
                /\ store'[i].HoursBetweenFire = store[i].HoursBetweenFire
                /\ store'[i].FireURL = store[i].FireURL
                /\ store'[i].FirePayload = store[i].FirePayload
          /\ ArrivesFor(r, "delete", i) => OthersKept(i)]_vars
====
